---------------------------- MODULE Spec2Model ----------------------------
(***************************************************************************)
(* A model of ttyplay2 (src/ttyplay2.c, the variant of lines 776-1974,     *)
(* which is the one that matches src/ttyrec.h): the indexer, the           *)
(* navigation primitives and the playback loop.                            *)
(*                                                                         *)
(* Pointers are integers: NULL is 0, a valid pointer is an index into the  *)
(* heap sequence it points into, and WILD stands for any bit pattern that  *)
(* is neither (the content of memory that was never written).              *)
(***************************************************************************)
EXTENDS Integers, Sequences, FiniteSets, TLC

VARIABLES
    files,      \* the recordings named on the command line (or stdin's single stream)
    opts,       \* the run: indexed (FILE arguments given), nowait (-n), seekable (the
                \* input stream can seek), keys (what is typed during the run),
                \* log (the run keeps the complete terminal output in `written')
                \* and oversleep (by how many microseconds a select that times
                \* out can return late)
    index,      \* the File_ID and Clrscr_ID heap objects built by create_file_index
    status,     \* static PControl status, with the stream state of status.fp
    loc,        \* the locals of ttyplay: first_time, prev, h, buf, speed, key,
                \* those of the seek block: seek_target, cur_pos, first_loop, and
                \* the static drift of ttywait
    out,        \* what write_func wrote during the current loop iteration
    written,    \* everything write_func wrote (kept only when opts.log)
    hist,       \* history of the run: which commands have been executed
    term,       \* the terminal: mode is "saved" (as the shell left it) or "curses"
                \* (after initcurses); handler, whether SIGINT is bound to interrupt
    pc          \* the position of the process in main/ttyplay

vars == <<files, opts, index, status, loc, out, written, hist, term, pc>>

-----------------------------------------------------------------------------
(* Program constants *)

SWITCH_LATENCY == 10
JUMPBASE == 15
JUMP_SCALE == 10
BUFSIZE == 8192
USEC == 1000000
HEADER_SIZE == 12

NULL == 0
WILD == -1

(* Bounds of the model *)
MaxSpeedExp == 1
MaxWritten == 8
MaxPendingSeeks == 1
MaxDrift == 3000

-----------------------------------------------------------------------------
(* struct timeval and its arithmetic *)

TV(s, u) == [sec |-> s, usec |-> u]
Zero == TV(0, 0)

timeval_diff(tv1, tv2) ==
    LET s == tv2.sec - tv1.sec
        u == tv2.usec - tv1.usec
    IN  IF u < 0 THEN TV(s - 1, u + USEC) ELSE TV(s, u)

timeval_sub_operands_swapped(tv1, tv2) ==
    LET s == tv2.sec - tv1.sec
        u == tv2.usec - tv1.usec
    IN  IF u < 0 THEN TV(s - 1, u + USEC) ELSE TV(s, u)

timeval_sub(tv1, tv2) ==
    LET s == tv1.sec - tv2.sec
        u == tv1.usec - tv2.usec
    IN  IF u < 0 THEN TV(s - 1, u + USEC) ELSE TV(s, u)

timeval_add(tv1, tv2) ==
    LET u == tv1.usec + tv2.usec
        s == tv1.sec + tv2.sec
    IN  IF u > USEC THEN TV(s + 1, u - USEC) ELSE TV(s, u)

(* The number of microseconds a timeval stands for. *)
Micros(tv) == tv.sec * USEC + tv.usec

-----------------------------------------------------------------------------
(* Recordings: a file is a sequence of records; a record is a header       *)
(* (tv, len) and a payload, of which the model keeps whether it holds the  *)
(* CLRSCR marker, whether a 0x00 byte precedes the marker, and how many    *)
(* of the len bytes the header declares the file holds (got).              *)

Rec(s, u, n, c) == [tv |-> TV(s, u), len |-> n, clr |-> c, nul |-> FALSE, got |-> n]

(* a record whose payload has a 0x00 byte before the CLRSCR marker *)
RecNul(s, u, n) == [Rec(s, u, n, TRUE) EXCEPT !.nul = TRUE]

(* a record cut short: the file ends g bytes into the payload *)
RecShort(s, u, n, g) == [Rec(s, u, n, FALSE) EXCEPT !.got = g]

(* The file offset of the header of record i (1-based) of a file; the     *)
(* offset of record Len+1 is the size of the file.                         *)
RECURSIVE Offset(_, _)
Offset(recs, i) ==
    IF i <= 1 THEN 0
    ELSE Offset(recs, i - 1) + HEADER_SIZE + recs[i - 1].got

FileSize(recs) == Offset(recs, Len(recs) + 1)

(* The record whose header starts at byte pos, 0 when pos is the end of    *)
(* the file.  Every position the program seeks to is a record boundary.    *)
RecAt(recs, pos) ==
    IF \E i \in 1..Len(recs) : Offset(recs, i) = pos
    THEN CHOOSE i \in 1..Len(recs) : Offset(recs, i) = pos
    ELSE 0

-----------------------------------------------------------------------------
(* The indexer.  File_ID and Clrscr_ID objects live in two heap sequences; *)
(* a File_ID pointer is an index into fileid, a Clrscr_ID pointer an index *)
(* into clrscrid.  malloc does not clear memory: a field that the code     *)
(* never assigns holds `junk', which the caller draws from {NULL, WILD}.   *)

JunkTV == TV(WILD, WILD)

ValidPtr(heap, p) == p \in 1..Len(heap)

(* strstr(buf, CLRSCR): the scan of the payload as a C string ends at the  *)
(* first 0x00 byte.                                                        *)
strstr_CLRSCR(rec) == rec.clr /\ ~rec.nul

(* One turn of the while loop of index_one_file, on record i of file k.    *)
(* X holds the heap and the locals prev_header.tv, prev_clrscr, cur_clrscr *)
(* and whence_in_cls; X.halt is set when the process ends inside.          *)
index_record(X, k, recs, i, junk) ==
    LET cur == recs[i]
        cur_record == Offset(recs, i)
        prev_tv == IF X.prev_tv.sec = 0 THEN cur.tv ELSE X.prev_tv
        whence == timeval_add(X.whence, timeval_sub(cur.tv, prev_tv))
        c == Len(X.clrscrid) + 1
        fresh == [file_id |-> k, record_start |-> cur_record,
                  time_elapsed_cls |-> JunkTV, prev |-> junk, next |-> NULL]
        linked(p, new) ==
            [X EXCEPT !.clrscrid = Append([@ EXCEPT ![p].next = c,
                                              ![p].time_elapsed_cls = whence], new),
                      !.prev_clrscr = c, !.cur_clrscr = c,
                      !.prev_tv = cur.tv, !.whence = whence]
    IN  IF cur.len > BUFSIZE THEN [X EXCEPT !.halt = "exit_failure"]
        ELSE IF ~strstr_CLRSCR(cur)
        THEN [X EXCEPT !.prev_tv = cur.tv, !.whence = whence]
        ELSE IF X.prev_clrscr = NULL
        THEN IF X.fileid[k].prev # NULL
             THEN LET p == X.fileid[X.fileid[k].prev].last_clrscr
                  IN  IF ~ValidPtr(X.clrscrid, p) THEN [X EXCEPT !.halt = "segv"]
                      ELSE [linked(p, fresh) EXCEPT !.fileid[k].first_clrscr = c]
             ELSE [X EXCEPT !.clrscrid = Append(@, fresh),
                            !.fileid[k].first_clrscr = c,
                            !.prev_clrscr = c, !.cur_clrscr = c,
                            !.prev_tv = cur.tv, !.whence = whence]
        ELSE linked(X.prev_clrscr, [fresh EXCEPT !.prev = X.prev_clrscr])

RECURSIVE index_records(_, _, _, _, _)
index_records(X, k, recs, i, junk) ==
    IF i > Len(recs) \/ X.halt # "" THEN X
    ELSE index_records(index_record(X, k, recs, i, junk), k, recs, i + 1, junk)

(* index_one_file: the loop, then the update of the file's last_clrscr and *)
(* of the end time of the last entry.  cur_clrscr is a local that is not   *)
(* initialised: it is WILD until the file's first marker is found.         *)
index_one_file(H, k, recs, whence_in_cls, junk) ==
    LET X0 == [fileid |-> H.fileid, clrscrid |-> H.clrscrid, halt |-> H.halt,
               prev_tv |-> TV(0, 0), prev_clrscr |-> NULL, cur_clrscr |-> WILD,
               whence |-> whence_in_cls]
        X == index_records(X0, k, recs, 1, junk)
    IN  IF X.halt # "" THEN X
        ELSE IF ~ValidPtr(X.clrscrid, X.cur_clrscr)
        THEN [X EXCEPT !.fileid[k].last_clrscr = X.cur_clrscr, !.halt = "segv"]
        ELSE [X EXCEPT !.fileid[k].last_clrscr = X.cur_clrscr,
                       !.clrscrid[X.cur_clrscr].time_elapsed_cls = X.whence]

(* create_file_index: one turn of the for loop per file argument. *)
RECURSIVE index_files(_, _, _, _, _)
index_files(H, fs, k, whence_in_file, junk) ==
    IF k > Len(fs) \/ H.halt # "" THEN H
    ELSE
      LET cur_fileid == [prev |-> k - 1, next |-> NULL,
                         first_clrscr |-> junk, last_clrscr |-> junk]
          H1 == [H EXCEPT !.fileid =
                    Append(IF k > 1 THEN [@ EXCEPT ![k - 1].next = k] ELSE @,
                           cur_fileid)]
          X == index_one_file(H1, k, fs[k], whence_in_file, junk)
          fc == X.fileid[k].first_clrscr
          H2 == IF X.halt # "" \/ k = 1 THEN X
                ELSE IF ~ValidPtr(X.clrscrid, fc) THEN [X EXCEPT !.halt = "segv"]
                ELSE [X EXCEPT !.clrscrid[fc].prev = X.fileid[k - 1].last_clrscr]
      IN  index_files([fileid |-> H2.fileid, clrscrid |-> H2.clrscrid,
                       halt |-> H2.halt],
                      fs, k + 1, H2.whence, junk)

create_file_index(fs, junk) ==
    index_files([fileid |-> <<>>, clrscrid |-> <<>>, halt |-> ""], fs, 1, Zero, junk)

-----------------------------------------------------------------------------
(* The navigation primitives.  Each takes the status record S and the index *)
(* I and returns the new status, or a pair <<status, return value>>.        *)
(* status.fp is the pair fp_file (the file the stream is bound to) and      *)
(* fp_pos (its position).  S.halt is set when the process ends inside:      *)
(* "segv" for a load or store through a pointer that is NULL or WILD,       *)
(* "exit_failure" for exit(EXIT_FAILURE), "exit_0" for exit(FAIL).          *)
(* A primitive entered with S.halt set does nothing.                        *)

Halt(S, why) == IF S.halt = "" THEN [S EXCEPT !.halt = why] ELSE S

(* the result of an expression whose evaluation faults *)
Fault == [fault |-> TRUE]
IsFault(t) == DOMAIN t = {"fault"}

(* f->prev->last_clrscr->time_elapsed_cls, the value or Fault *)
PrevFileEnd(I, f) ==
    IF ~ValidPtr(I.fileid, f) THEN Fault
    ELSE IF ~ValidPtr(I.fileid, I.fileid[f].prev) THEN Fault
    ELSE IF ~ValidPtr(I.clrscrid, I.fileid[I.fileid[f].prev].last_clrscr) THEN Fault
    ELSE I.clrscrid[I.fileid[I.fileid[f].prev].last_clrscr].time_elapsed_cls

update_status(S, I, clrscr, position, time_elapsed) ==
    IF S.halt # "" THEN S
    ELSE LET S1 == [S EXCEPT !.clrscr = clrscr, !.position = position,
                             !.time_elapsed = time_elapsed]
         IN  IF ~ValidPtr(I.clrscrid, clrscr) THEN Halt(S1, "segv")
             ELSE [S1 EXCEPT !.current_fileid = I.clrscrid[clrscr].file_id,
                             !.fp_pos = position]

(* returns <<status, FAIL (0) or SUCCESS (1)>> *)
switch_to_file(S, I, target) ==
    IF S.halt # "" THEN <<S, 0>>
    ELSE IF S.index_head = NULL \/ target = NULL THEN <<S, 0>>
    ELSE IF ~ValidPtr(I.fileid, target) THEN <<Halt(S, "segv"), 0>>
    ELSE LET t == IF I.fileid[target].prev = NULL THEN Zero
                  ELSE PrevFileEnd(I, target)
         IN  IF IsFault(t) THEN <<Halt(S, "segv"), 0>>
             ELSE <<[S EXCEPT !.time_elapsed = t, !.current_fileid = target,
                              !.fp_file = target, !.fp_pos = 0], 1>>

(* returns <<status, how many files were not moved over>> *)
RECURSIVE jump_next_file(_, _, _)
jump_next_file(S, I, direction) ==
    IF S.halt # "" THEN <<S, direction>>
    ELSE IF direction # 0 /\ ~ValidPtr(I.fileid, S.current_fileid)
    THEN <<Halt(S, "segv"), direction>>
    ELSE IF direction < 0
    THEN IF I.fileid[S.current_fileid].prev = S.current_fileid
         THEN <<S, direction>>
         ELSE LET R == jump_next_file(
                         [S EXCEPT !.current_fileid = I.fileid[S.current_fileid].prev],
                         I, direction + 1)
              IN  IF R[2] > 0 THEN jump_next_file(R[1], I, R[2]) ELSE R
    ELSE IF direction > 0
    THEN IF I.fileid[S.current_fileid].next = NULL
         THEN <<S, direction>>
         ELSE jump_next_file(
                  [S EXCEPT !.current_fileid = I.fileid[S.current_fileid].next],
                  I, direction - 1)
    ELSE <<S, direction>>

(* the third argument of the two update_status calls of jump_file *)
FileStartTime(S, I) ==
    IF ~ValidPtr(I.fileid, S.current_fileid) THEN Fault
    ELSE IF I.fileid[S.current_fileid].prev = S.current_fileid THEN Zero
    ELSE PrevFileEnd(I, S.current_fileid)

(* update_status(current_fileid->first_clrscr, 0, <start time of the file>) *)
ToFileStart(S, I) ==
    IF S.halt # "" THEN S
    ELSE LET t == FileStartTime(S, I)
         IN  IF IsFault(t) THEN Halt(S, "segv")
             ELSE update_status(S, I, I.fileid[S.current_fileid].first_clrscr, 0, t)

(* returns <<status, return value>> *)
jump_file(S, I, direction) ==
    IF S.halt # "" \/ S.index_head = NULL THEN <<S, direction>>
    ELSE IF direction < 0 /\
            (~ValidPtr(I.fileid, S.current_fileid)
             \/ ~ValidPtr(I.clrscrid, I.fileid[S.current_fileid].last_clrscr))
    THEN <<Halt(S, "segv"), direction>>
    ELSE
      LET delta == timeval_sub(S.time_elapsed,
                       I.clrscrid[I.fileid[S.current_fileid].last_clrscr]
                           .time_elapsed_cls).sec - SWITCH_LATENCY
          d == IF direction < 0
               THEN (IF delta < 0 THEN direction ELSE direction + 1)
               ELSE direction
      IN  IF d = 0 THEN <<ToFileStart(S, I), 0>>
          ELSE LET J == jump_next_file(S, I, d)
                   W == switch_to_file(J[1], I, J[1].current_fileid)
               IN  IF W[1].halt # "" THEN <<W[1], J[2]>>
                   ELSE IF W[2] = 0 THEN <<Halt(W[1], "exit_failure"), J[2]>>
                   ELSE <<ToFileStart(W[1], I), J[2]>>

(* returns <<status, return value>> *)
RECURSIVE jump_clrscr(_, _, _)
jump_clrscr(S, I, direction) ==
    IF S.halt # "" \/ direction = 0 THEN <<S, direction>>
    ELSE IF ~ValidPtr(I.clrscrid, S.clrscr) THEN <<Halt(S, "segv"), direction>>
    ELSE
      LET c == I.clrscrid[S.clrscr]
          at_end == IF direction < 0 THEN c.prev = S.clrscr ELSE c.next = NULL
          other == IF direction < 0 THEN I.fileid[c.file_id].prev
                   ELSE I.fileid[c.file_id].next
          W == switch_to_file(S, I, other)
          moved ==
            IF at_end
            THEN [W[1] EXCEPT !.clrscr =
                     IF ~ValidPtr(I.fileid, W[1].current_fileid) THEN WILD
                     ELSE IF direction < 0
                     THEN I.fileid[W[1].current_fileid].last_clrscr
                     ELSE I.fileid[W[1].current_fileid].first_clrscr]
            ELSE [S EXCEPT !.clrscr = IF direction < 0 THEN c.prev ELSE c.next]
      IN  IF at_end /\ (W[1].halt # "" \/ W[2] = 0) THEN <<W[1], direction>>
          ELSE LET R == jump_clrscr(moved, I,
                            IF direction < 0 THEN direction + 1 ELSE direction - 1)
               IN  <<R[1], direction>>

(* returns <<status, FAIL (0) or SUCCESS (1)>> *)
RECURSIVE seek_walk(_, _, _)
seek_walk(I, cur_clrscr, seek_target) ==
    LET tdelta == timeval_diff(I.clrscrid[cur_clrscr].time_elapsed_cls, seek_target)
    IN  IF tdelta.sec <= 0 THEN cur_clrscr
        ELSE IF I.clrscrid[cur_clrscr].next = NULL THEN cur_clrscr
        ELSE seek_walk(I, I.clrscrid[cur_clrscr].next, seek_target)

seek_index(S, I, seek_target) ==
    IF S.halt # "" THEN <<S, 0>>
    ELSE IF ~ValidPtr(I.fileid, S.index_head)
            \/ ~ValidPtr(I.clrscrid, I.fileid[S.index_head].first_clrscr)
    THEN <<Halt(S, "segv"), 0>>
    ELSE
      LET cur_clrscr == seek_walk(I, I.fileid[S.index_head].first_clrscr, seek_target)
          cur_fileid == I.clrscrid[cur_clrscr].file_id
          W == switch_to_file([S EXCEPT !.current_fileid = cur_fileid], I, cur_fileid)
          p == I.clrscrid[cur_clrscr].prev
      IN  IF W[1].halt # "" \/ W[2] = 0 THEN <<W[1], 0>>
          ELSE IF p = NULL
          THEN <<update_status(W[1], I, cur_clrscr,
                               I.clrscrid[cur_clrscr].record_start, Zero), 1>>
          ELSE IF ~ValidPtr(I.clrscrid, p) THEN <<Halt(W[1], "segv"), 0>>
          ELSE <<update_status(W[1], I, cur_clrscr,
                               I.clrscrid[cur_clrscr].record_start,
                               I.clrscrid[p].time_elapsed_cls), 1>>

-----------------------------------------------------------------------------
(* Records, buffers, speed and keys of the playback loop *)

JunkHeader == [tv |-> JunkTV, len |-> WILD]

(* char *buf: st is "uninit" (never assigned), "live" (returned by ttyread  *)
(* and not yet released) or "freed" (released: a dangling pointer); f and r *)
(* name the record whose payload the block holds or held.                   *)
NoBuf == [st |-> "uninit", f |-> 0, r |-> 0]

(* double speed: sgn * 2^exp *)
Speed(sg, e) == [sgn |-> sg, exp |-> e]
Negated_magnitude_lost(speed) == Speed(-speed.sgn, 0)

Negated(speed) == [speed EXCEPT !.sgn = -speed.sgn]

RECURSIVE Pow2(_)
Pow2(n) == IF n <= 0 THEN 1 ELSE 2 * Pow2(n - 1)

(* conversion of a double to long: truncation toward zero *)
TruncDiv(n, d) == IF n >= 0 THEN n \div d ELSE -((-n) \div d)

(* tv_sec += (speed * m), the sum computed in double and converted back *)
AddScaled(tv_sec, speed, m) ==
    IF speed.exp >= 0 THEN tv_sec + speed.sgn * Pow2(speed.exp) * m
    ELSE TruncDiv(tv_sec * Pow2(-speed.exp) + speed.sgn * m, Pow2(-speed.exp))

(* What can arrive on the terminal during one ttywait: nothing ("none", the *)
(* select timed out), a single byte, or ESC followed by two bytes.          *)
PlainKeys == {"+", "-", "1", "p", "q", "f", "d", "c", "x", "z"}
EscKeys == {"ESC O D", "ESC O C", "ESC O A", "ESC O B", "ESC O H", "ESC O F",
            "ESC O Z", "ESC [ 5", "ESC [ 6", "ESC [ A", "ESC [ B", "ESC [ C",
            "ESC [ D", "ESC [ H", "ESC [ F", "ESC [ Z", "ESC Z"}
Keys == PlainKeys \cup EscKeys
SeekKeys == {"ESC O D", "ESC O C", "ESC O A", "ESC O B", "ESC O F",
             "ESC [ 5", "ESC [ 6"}

(* gettimeofday() at the End key *)
NowSec == 100000
NowUsecs == {0, 500000}

(* timeval_div(tv1, n) for n = 2^e, the absolute value of speed: the        *)
(* quotient is computed in double and both fields are converted back by     *)
(* truncation toward zero.                                                  *)
timeval_div(tv1, e) ==
    LET x == IF e >= 0 THEN TruncDiv(Micros(tv1), Pow2(e))
             ELSE Micros(tv1) * Pow2(-e)
        s == TruncDiv(x, USEC)
    IN  TV(s, x - s * USEC)

(* The timeout ttywait hands to select (lines 1382-1395): the scaled time   *)
(* between the two records less the drift, zero when that is negative.      *)
ttywait_diff(drift, prev, cur, speed) ==
    LET diff == timeval_diff(drift, timeval_div(timeval_diff(prev, cur), speed.exp))
    IN  IF diff.sec < 0 THEN Zero ELSE diff

(* the drift of a wait taken from that wait alone, whatever was due before *)
ttywait_timed_out_forgets_drift(drift, diff, elapsed) == timeval_diff(diff, elapsed)

(* The drift ttywait leaves when select has timed out (lines 1509-1517);    *)
(* elapsed is timeval_diff(start, stop).                                    *)
ttywait_timed_out(drift, diff, elapsed) ==
    LET d == IF diff.sec = 0 /\ diff.usec = 0 THEN timeval_diff(drift, diff) ELSE diff
    IN  timeval_diff(d, elapsed)

(* The drift ttywait leaves when it has read the byte(s) k: line 1507 is    *)
(* the last statement of case '\033' of the switch on the first byte.       *)
ttywait_key_read(drift, k) == IF k \in EscKeys THEN Zero ELSE drift

(* What the clock can measure across a select that timed out: the timeout   *)
(* and the delay, one of late, with which the process was woken.            *)
Elapsed(diff, late) == {timeval_add(diff, TV(0, o)) : o \in late}

(* The switch of ttywait on the byte(s) k it has read (lines 1418-1506): the *)
(* new status, the speed it returns and the key it passes up ("" for none). *)
ttywait_switch(S, I, speed, k, now) ==
    LET plain(sp, key) == [status |-> S, speed |-> sp, key |-> key]
        seek(m) == [status |-> [S EXCEPT !.seek_request.sec = AddScaled(@, speed, m)],
                    speed |-> speed, key |-> ""]
    IN  CASE k = "+" -> plain([speed EXCEPT !.exp = @ + 1], "")
          [] k = "-" -> plain([speed EXCEPT !.exp = @ - 1], "")
          [] k = "1" -> plain(Speed(1, 0), "")
          [] k = "p" -> plain(Negated(speed), "")
          [] k \in {"q", "f", "d", "x"} -> plain(speed, k)
          [] k = "ESC O D" -> seek(-JUMPBASE)
          [] k = "ESC O C" -> seek(JUMPBASE)
          [] k = "ESC O A" -> seek(-JUMPBASE * JUMP_SCALE)
          [] k = "ESC O B" -> seek(JUMPBASE * JUMP_SCALE)
          [] k = "ESC O H" ->
                [status |-> IF ~ValidPtr(I.fileid, S.index_head) THEN Halt(S, "segv")
                            ELSE update_status(S, I,
                                     I.fileid[S.index_head].first_clrscr, 0, Zero),
                 speed |-> speed, key |-> ""]
          [] k = "ESC O F" ->
                [status |-> [S EXCEPT !.seek_request = now],
                 speed |-> speed, key |-> ""]
          [] k = "ESC [ 5" -> seek(-JUMPBASE * JUMP_SCALE * JUMP_SCALE)
          [] k = "ESC [ 6" -> seek(JUMPBASE * JUMP_SCALE * JUMP_SCALE)
          [] OTHER -> plain(speed, "")

ttywait_default_falls_through(S, I, speed, k, now) ==
    IF k = "none" THEN [status |-> S, speed |-> speed, key |-> ""]
    ELSE IF k \in {"z", "ESC O Z", "ESC [ Z", "ESC Z"}
    THEN ttywait_switch(S, I, speed, "ESC [ 6", now)
    ELSE ttywait_switch(S, I, speed, k, now)

(* ttywait, when select has returned: the byte(s) k are taken through the   *)
(* switch; when it timed out (k is "none") nothing but drift changes (see   *)
(* ttywait_timed_out).                                                      *)
ttywait(S, I, speed, k, now) ==
    IF k = "none" THEN [status |-> S, speed |-> speed, key |-> ""]
    ELSE ttywait_switch(S, I, speed, k, now)

(* ttynowait reads nothing and returns 0 *)
ttynowait(S, speed) == [status |-> S, speed |-> Speed(0, 0), key |-> ""]

(* The keys whose effect the bounds of the model admit: the speed stays     *)
(* within 2^-MaxSpeedExp .. 2^MaxSpeedExp.                                  *)
Admitted(k, speed) ==
    /\ k = "+" => speed.exp < MaxSpeedExp
    /\ k = "-" => speed.exp > -MaxSpeedExp

(* get_header_time: <<status, h.tv>>.  The record at the stream position is *)
(* read and its buffer released; the stream is then put back, which fails   *)
(* on a stream that cannot seek (stdin from a pipe): ftell gives -1 and the *)
(* fseek leaves the stream after the record.                                *)
get_header_time(S, fs, seekable) ==
    IF S.halt # "" THEN <<S, JunkTV>>
    ELSE LET recs == fs[S.fp_file]
             i == RecAt(recs, S.fp_pos)
             S1 == [S EXCEPT !.position = IF seekable THEN S.fp_pos ELSE -1]
         IN  IF i = 0 THEN <<Halt(S1, "exit_0"), JunkTV>>
             ELSE IF seekable THEN <<S1, recs[i].tv>>
             ELSE <<[S1 EXCEPT !.fp_pos = Offset(recs, i + 1)], recs[i].tv>>

-----------------------------------------------------------------------------
(* The inputs *)

FileA == <<Rec(100, 0, 2, FALSE), Rec(101, 0, 4, TRUE), Rec(102, 0, 2, FALSE)>>
FileB == <<Rec(100, 0, 4, TRUE), Rec(115, 0, 4, TRUE), Rec(120, 0, 2, FALSE)>>
FileC == <<Rec(200, 0, 4, TRUE), Rec(212, 0, 2, FALSE), Rec(224, 0, 2, FALSE)>>
FileD == <<Rec(300, 0, 2, FALSE), Rec(300, 500000, 4, TRUE), Rec(301, 0, 2, FALSE)>>
FileE == <<Rec(100, 0, 4, TRUE), Rec(103, 0, 2, FALSE)>>
FileG == <<Rec(200, 0, 2, FALSE), Rec(215, 0, 4, TRUE), Rec(220, 0, 2, FALSE)>>
FileN == <<Rec(100, 0, 2, FALSE), Rec(120, 0, 2, FALSE)>>
FileP == <<Rec(103, 0, 2, FALSE), Rec(103, 500000, 4, TRUE), Rec(104, 0, 2, FALSE)>>
FileQ == <<Rec(104, 0, 4, TRUE), Rec(116, 0, 2, FALSE), Rec(128, 0, 2, FALSE)>>
FileBig == <<Rec(100, 0, BUFSIZE, TRUE), Rec(101, 0, BUFSIZE + 1, FALSE)>>
FileZ == <<Rec(100, 0, 4, TRUE), RecNul(101, 0, 6), Rec(102, 0, 2, FALSE)>>
FileShort == <<Rec(100, 0, 4, TRUE), Rec(101, 0, 2, FALSE), RecShort(102, 0, 4, 2)>>
FileT == <<Rec(100, 0, 4, TRUE), Rec(100, 500000, 2, FALSE), Rec(100, 500000, 2, FALSE),
           Rec(101, 0, 2, FALSE)>>

IndexedInputs ==
    { <<FileA>>, <<FileB>>, <<FileE, FileC>>, <<FileB, FileD>>, <<FileE, FileG>>,
      <<FileE, FileP, FileQ>>, <<FileN>>, <<FileE, FileN>>, <<FileBig>>,
      <<FileZ>>, <<FileShort>> }

StdinInputs ==
    { <<FileA>>, <<FileN>>, <<FileD>>, <<FileBig>>, <<FileShort>>, << <<>> >> }

(* What is typed during a run comes from one of these sets: only q, the    *)
(* seek keys (with the speed keys, which scale them), the jump keys, or the *)
(* speed keys and the bytes that are ignored.  A run that is only ever sent *)
(* q is a plain playback; the model then records all of its output (log).   *)
KeysQuit == {"q"}
KeysPause == {"p", "+", "q"}
KeysSeek == SeekKeys \cup {"ESC O H", "+", "-", "q"}
KeysJump == {"f", "d", "c", "x", "q"}
KeysSpeed == (Keys \ (SeekKeys \cup KeysJump \cup {"ESC O H"})) \cup {"q"}

Options ==
    { [indexed |-> TRUE, nowait |-> w, seekable |-> TRUE,
       log |-> ks \in {KeysQuit, KeysPause}, keys |-> ks, oversleep |-> {0}]
        : w \in BOOLEAN, ks \in {KeysQuit, KeysPause, KeysSeek, KeysJump, KeysSpeed} }
    \cup
    { [indexed |-> FALSE, nowait |-> w, seekable |-> k,
       log |-> ks \in {KeysQuit, KeysPause}, keys |-> ks, oversleep |-> {0}]
        : w \in BOOLEAN, k \in BOOLEAN, ks \in {KeysQuit, KeysPause, Keys} }

InitStatus ==
    [fp_file |-> NULL, fp_pos |-> 0, current_fileid |-> NULL, index_head |-> NULL,
     clrscr |-> NULL, time_elapsed |-> Zero, seek_request |-> Zero,
     position |-> 0, halt |-> ""]

InitLoc ==
    [first_time |-> TRUE, prev |-> JunkTV, h |-> JunkHeader, buf |-> NoBuf,
     speed |-> Speed(1, 0), key |-> "", seek_target |-> Zero, cur_pos |-> 0,
     first_loop |-> FALSE, drift |-> Zero]

(* What has happened in the run, kept for stating properties: nav, a jump  *)
(* or a seek was carried out; eof, the end of the last file was met;        *)
(* pending, the number of seek keys read since seek_request was last        *)
(* cleared; sought, the current loop iteration carried out a seek.          *)
(* typed, the byte(s) the last ttywait read ("none" when its select timed    *)
(* out, "" when the loop iteration has not waited).                         *)
InitHist == [nav |-> FALSE, eof |-> FALSE, pending |-> 0, sought |-> FALSE,
             typed |-> "", timeout |-> Zero, elapsed |-> Zero]

InitTerm == [mode |-> "saved", handler |-> FALSE]

InitWith(o, fs) ==
    /\ opts = o
    /\ files = fs
    /\ index = [fileid |-> <<>>, clrscrid |-> <<>>]
    /\ status = InitStatus
    /\ loc = InitLoc
    /\ out = <<>>
    /\ written = <<>>
    /\ hist = InitHist
    /\ term = InitTerm
    /\ pc = "main"

Init ==
    \E o \in Options :
        \E fs \in (IF o.indexed THEN IndexedInputs ELSE StdinInputs) :
            InitWith(o, fs)

-----------------------------------------------------------------------------
(* main: the index and the input stream (lines 1936-1950), then the        *)
(* terminal (line 1959), then the SIGINT handler (line 1961) and the call  *)
(* of ttyplay with its first lines; after ttyplay has returned, the        *)
(* release of the index and endwin (lines 1964-1973).                      *)

Main ==
    /\ pc = "main"
    /\ IF opts.indexed
       THEN \E junk \in {NULL, WILD} :
              LET H == create_file_index(files, junk)
              IN  /\ index' = [fileid |-> H.fileid, clrscrid |-> H.clrscrid]
                  /\ IF H.halt # ""
                     THEN /\ pc' = H.halt
                          /\ status' = status
                     ELSE /\ pc' = "initcurses"
                          /\ status' = [status EXCEPT !.current_fileid = 1,
                                           !.index_head = 1, !.fp_file = 1]
       ELSE /\ index' = index
            /\ pc' = "initcurses"
            /\ status' = [status EXCEPT !.fp_file = 1]
    /\ UNCHANGED <<term, files, opts, loc, out, written, hist>>

(* initcurses(utf8_mode): initscr and the calls after it put the terminal   *)
(* into curses mode                                                         *)
InitCurses ==
    /\ pc = "initcurses"
    /\ term' = [term EXCEPT !.mode = "curses"]
    /\ pc' = "signal"
    /\ UNCHANGED <<files, opts, index, status, loc, out, written, hist>>

(* signal(SIGINT, interrupt), then process(input, speed, ...) *)
InstallHandler ==
    /\ pc = "signal"
    /\ term' = [term EXCEPT !.handler = TRUE]
    /\ pc' = "read"
    /\ UNCHANGED <<files, opts, index, status, loc, out, written, hist>>

(* free_fileid(status.index_head): free_fileid releases the files from the  *)
(* last to the first, and for each of them free_clrscrid releases the       *)
(* entries from the file's first entry to the end of the global chain.  The *)
(* entries of a later file are thus read and released again once for every  *)
(* file before it that leads to them: undefined, the C library aborts, or   *)
(* the walk faults, or it goes unnoticed.  A first_clrscr that is no valid  *)
(* pointer faults.                                                          *)
free_fileid(I, index_head) ==
    IF index_head = NULL THEN {"ok"}
    ELSE IF \E f \in 1..Len(I.fileid) : ~ValidPtr(I.clrscrid, I.fileid[f].first_clrscr)
    THEN {"segv"}
    ELSE IF \E f \in 1..Len(I.fileid) : \E c \in 1..Len(I.clrscrid) :
               /\ I.clrscrid[c].file_id = f
               /\ ValidPtr(I.clrscrid, I.clrscrid[c].next)
               /\ I.clrscrid[I.clrscrid[c].next].file_id # f
    THEN {"ok", "abort", "segv"}
    ELSE {"ok"}

(* ttyplay has returned: lines 1964-1973 of main *)
Finish ==
    /\ pc = "done"
    /\ \E fo \in free_fileid(index, status.index_head) :
          IF fo = "ok"
          THEN /\ term' = [term EXCEPT !.mode = "saved"]
               /\ pc' = "returned"
          ELSE /\ term' = term
               /\ pc' = fo
    /\ UNCHANGED <<files, opts, index, status, loc, out, written, hist>>

(* SIGINT.  Bound to interrupt (lines 1879-1888) it ends curses mode and    *)
(* exits; not bound, its default action ends the process as it stands.      *)
Running == pc \in {"main", "initcurses", "signal", "read", "wait", "dispatch",
                   "seek", "fine", "emit", "done"}

Interrupt ==
    /\ Running
    /\ IF term.handler
       THEN /\ term' = [term EXCEPT !.mode = "saved"]
            /\ pc' = "exit_sigint"
       ELSE /\ term' = term
            /\ pc' = "killed"
    /\ UNCHANGED <<files, opts, index, status, loc, out, written, hist>>

-----------------------------------------------------------------------------
(* The playback loop of ttyplay, one action per stretch of the loop body *)

(* The free call in release_buffer: releasing a block that is not live (one    *)
(* already released, or a pointer never assigned) is undefined; the C       *)
(* library either detects it and aborts or returns.                         *)
ReleaseOutcomes(buf) == IF buf.st = "live" THEN {"ok"} ELSE {"ok", "abort"}

Released(buf) == [buf EXCEPT !.st = "freed"]

(* write_func(buf, h.len): what reaches the terminal.  A released block     *)
(* still holds h.len bytes, no longer defined (stale); a pointer never      *)
(* assigned faults, or yields bytes that are no payload, or nothing.        *)
WriteOutcomes(buf) == IF buf.st = "uninit" THEN {"ok", "nothing", "segv"} ELSE {"ok"}

Chunk(buf) == [f |-> buf.f, r |-> buf.r, stale |-> buf.st # "live"]

Logged(w, chunks) == IF opts.log THEN w \o chunks ELSE w

(* read_func(status.fp, &h, &buf) at the top of the loop, with the handling *)
(* of end of file (lines 1605-1630)                                         *)
Read ==
    /\ pc = "read"
    /\ LET recs == files[status.fp_file]
           i == RecAt(recs, status.fp_pos)
           cf == status.current_fileid
           after == IF loc.first_time THEN "emit" ELSE "wait"
       IN  IF i # 0
           THEN /\ loc' = [loc EXCEPT !.h = [tv |-> recs[i].tv, len |-> recs[i].len],
                                      !.buf = [st |-> "live", f |-> status.fp_file,
                                               r |-> i]]
                /\ status' = [status EXCEPT !.fp_pos = Offset(recs, i + 1)]
                /\ pc' = after
                /\ hist' = hist
           ELSE IF status.index_head # NULL /\ ~ValidPtr(index.fileid, cf)
           THEN /\ pc' = "segv"
                /\ UNCHANGED <<loc, status, hist>>
           ELSE IF status.index_head # NULL /\ index.fileid[cf].next # NULL
           THEN LET S1 == [status EXCEPT !.current_fileid = index.fileid[cf].next,
                                         !.fp_file = index.fileid[cf].next,
                                         !.fp_pos = 0]
                    S2 == ToFileStart(S1, index)
                IN  \E ro \in ReleaseOutcomes(loc.buf) :
                      /\ status' = S2
                      /\ loc' = [loc EXCEPT !.buf = Released(@)]
                      /\ pc' = IF S2.halt # "" THEN S2.halt
                               ELSE IF ro = "abort" THEN "abort" ELSE "read"
                      /\ hist' = hist
           ELSE /\ loc' = [loc EXCEPT !.speed = Negated(@)]
                /\ status' = status
                /\ pc' = after
                /\ hist' = [hist EXCEPT !.eof = TRUE]
    /\ out' = <<>>
    /\ UNCHANGED <<term, files, opts, index, written>>

(* speed = wait_func(prev, h.tv, speed, &key) (lines 1633-1634) *)
Wait ==
    /\ pc = "wait"
    /\ IF opts.nowait
       THEN LET W == ttynowait(status, loc.speed)
            IN  /\ loc' = [loc EXCEPT !.speed = W.speed, !.key = W.key]
                /\ pc' = "dispatch"
                /\ UNCHANGED <<status, hist>>
       ELSE IF loc.speed.sgn = 0
       THEN /\ pc' = "abort"
            /\ UNCHANGED <<status, loc, hist>>
       ELSE \E k \in opts.keys \cup (IF loc.speed.sgn > 0 THEN {"none"} ELSE {}) :
            \E usec \in NowUsecs :
              LET W == ttywait(status, index, loc.speed, k, TV(NowSec, usec))
                  diff == ttywait_diff(loc.drift, loc.prev, loc.h.tv, loc.speed)
              IN  \E elapsed \in (IF k = "none" THEN Elapsed(diff, opts.oversleep) ELSE {Zero}) :
                  /\ Admitted(k, loc.speed)
                  /\ k = "none" =>
                        Micros(ttywait_timed_out(loc.drift, diff, elapsed)) <= MaxDrift
                  /\ k \in SeekKeys => hist.pending < MaxPendingSeeks
                  /\ status' = W.status
                  /\ loc' = [loc EXCEPT !.speed = W.speed, !.key = W.key,
                                        !.drift = IF k = "none"
                                                  THEN ttywait_timed_out(@, diff, elapsed)
                                                  ELSE ttywait_key_read(@, k)]
                  /\ pc' = IF W.status.halt # "" THEN W.status.halt ELSE "dispatch"
                  /\ hist' = [hist EXCEPT !.nav = @ \/ k = "ESC O H",
                                           !.pending = IF k \in SeekKeys
                                                       THEN @ + 1 ELSE @,
                                           !.typed = k,
                                           !.timeout = diff,
                                           !.elapsed = elapsed]
    /\ UNCHANGED <<term, files, opts, index, out, written>>

(* switch(key) with a jump that stamps the entry it lands on with the time  *)
(* at which it was left                                                     *)
Dispatch_stamps_entry ==
    /\ pc = "dispatch"
    /\ LET k == loc.key
           J == CASE k = "f" -> jump_file(status, index, 1)
                  [] k = "d" -> jump_file(status, index, -1)
                  [] k = "c" -> jump_clrscr(status, index, 1)
                  [] k = "x" -> jump_clrscr(status, index, -1)
                  [] OTHER -> <<status, 0>>
           G == get_header_time(J[1], files, opts.seekable)
       IN  IF k = "q"
           THEN /\ pc' = "done"
                /\ UNCHANGED <<status, loc, hist, index>>
           ELSE IF k \in {"f", "d", "c", "x"}
           THEN /\ status' = G[1]
                /\ loc' = [loc EXCEPT !.h.tv = G[2]]
                /\ pc' = IF G[1].halt # "" THEN G[1].halt ELSE "seek"
                /\ hist' = [hist EXCEPT !.nav = TRUE]
                /\ index' = IF ValidPtr(index.clrscrid, G[1].clrscr)
                             THEN [index EXCEPT !.clrscrid[G[1].clrscr].time_elapsed_cls =
                                                   status.time_elapsed]
                             ELSE index
           ELSE /\ pc' = "seek"
                /\ UNCHANGED <<status, loc, hist, index>>
    /\ UNCHANGED <<term, files, opts, out, written>>

(* switch(key) (lines 1636-1679) *)
Dispatch ==
    /\ pc = "dispatch"
    /\ LET k == loc.key
           J == CASE k = "f" -> jump_file(status, index, 1)
                  [] k = "d" -> jump_file(status, index, -1)
                  [] k = "c" -> jump_clrscr(status, index, 1)
                  [] k = "x" -> jump_clrscr(status, index, -1)
                  [] OTHER -> <<status, 0>>
           G == get_header_time(J[1], files, opts.seekable)
       IN  IF k = "q"
           THEN /\ pc' = "done"
                /\ UNCHANGED <<status, loc, hist>>
           ELSE IF k \in {"f", "d", "c", "x"}
           THEN /\ status' = G[1]
                /\ loc' = [loc EXCEPT !.h.tv = G[2]]
                /\ pc' = IF G[1].halt # "" THEN G[1].halt ELSE "seek"
                /\ hist' = [hist EXCEPT !.nav = TRUE]
           ELSE /\ pc' = "seek"
                /\ UNCHANGED <<status, loc, hist>>
    /\ UNCHANGED <<term, files, opts, index, out, written>>

(* The coarse phase of a seek: the test of line 1682, seek_index, and the   *)
(* set-up of the loop that follows (lines 1682-1709)                        *)
Seek ==
    /\ pc = "seek"
    /\ IF status.index_head # NULL /\ status.seek_request.sec # 0
       THEN LET seek_target == timeval_add(status.time_elapsed, status.seek_request)
                K == seek_index(status, index, seek_target)
            IN  /\ status' = K[1]
                /\ loc' = [loc EXCEPT !.seek_target = seek_target,
                                      !.cur_pos = K[1].fp_pos,
                                      !.first_loop = TRUE]
                /\ pc' = IF K[1].halt # "" THEN K[1].halt
                         ELSE IF K[2] = 0 THEN "exit_failure" ELSE "fine"
                /\ hist' = [hist EXCEPT !.nav = TRUE, !.sought = TRUE]
       ELSE /\ pc' = "emit"
            /\ UNCHANGED <<status, loc, hist>>
    /\ UNCHANGED <<term, files, opts, index, out, written>>

(* The fine phase: one turn of the loop of lines 1711-1737, or its end at   *)
(* end of file, followed by lines 1740-1741                                 *)
Fine ==
    /\ pc = "fine"
    /\ LET recs == files[status.fp_file]
           i == RecAt(recs, status.fp_pos)
       IN  IF i = 0
           THEN /\ status' = [status EXCEPT !.fp_pos = loc.cur_pos,
                                            !.seek_request = Zero]
                /\ pc' = "emit"
                /\ hist' = [hist EXCEPT !.pending = 0]
                /\ UNCHANGED <<loc, out, written>>
           ELSE
             LET h == [tv |-> recs[i].tv, len |-> recs[i].len]
                 buf == [st |-> "live", f |-> status.fp_file, r |-> i]
                 time_diff == IF loc.first_loop THEN Zero
                              ELSE timeval_diff(loc.prev, h.tv)
                 ahead == timeval_add(status.time_elapsed, time_diff)
             IN  /\ out' = Append(out, Chunk(buf))
                 /\ written' = Logged(written, <<Chunk(buf)>>)
                 /\ IF ~loc.first_loop /\ timeval_sub(loc.seek_target, ahead).sec < 0
                    THEN /\ loc' = [loc EXCEPT !.h = h, !.buf = Released(buf)]
                         /\ status' = [status EXCEPT !.fp_pos = loc.cur_pos,
                                                     !.seek_request = Zero]
                         /\ pc' = "emit"
                         /\ hist' = [hist EXCEPT !.pending = 0]
                    ELSE /\ loc' = [loc EXCEPT !.h = h, !.buf = Released(buf),
                                               !.cur_pos = Offset(recs, i + 1),
                                               !.prev = h.tv,
                                               !.first_loop = FALSE]
                         /\ status' = [status EXCEPT !.fp_pos = Offset(recs, i + 1),
                                                     !.time_elapsed = ahead]
                         /\ pc' = "fine"
                         /\ hist' = hist
    /\ UNCHANGED <<term, files, opts, index>>

(* The end of the loop body: the accounting of line 1748 and lines          *)
(* 1751-1757                                                                *)
Emit ==
    /\ pc = "emit"
    /\ opts.log => Len(written) < MaxWritten
    /\ \E wo \in WriteOutcomes(loc.buf) : \E ro \in ReleaseOutcomes(loc.buf) :
         LET chunks == IF wo = "ok" THEN <<Chunk(loc.buf)>> ELSE <<>>
         IN  /\ status' = IF loc.first_time THEN status
                          ELSE [status EXCEPT !.time_elapsed =
                                   timeval_add(@, timeval_sub(loc.h.tv, loc.prev))]
             /\ IF wo = "segv"
                THEN /\ pc' = "segv"
                     /\ loc' = [loc EXCEPT !.first_time = FALSE]
                     /\ UNCHANGED <<out, written>>
                ELSE /\ out' = out \o chunks
                     /\ written' = Logged(written, chunks)
                     /\ loc' = [loc EXCEPT !.first_time = FALSE,
                                           !.buf = Released(@),
                                           !.prev = IF ro = "abort" THEN @ ELSE loc.h.tv,
                                           !.key = "", !.seek_target = Zero,
                                           !.cur_pos = 0, !.first_loop = FALSE]
                     /\ pc' = IF ro = "abort" THEN "abort" ELSE "read"
    /\ hist' = [hist EXCEPT !.sought = FALSE, !.typed = "",
                             !.timeout = Zero, !.elapsed = Zero]
    /\ UNCHANGED <<term, files, opts, index>>

Next ==
    \/ Main \/ InitCurses \/ InstallHandler
    \/ Read \/ Wait \/ Dispatch \/ Seek \/ Fine \/ Emit
    \/ Finish

Spec == Init /\ [][Next]_vars

(* The runs in which SIGINT may arrive at any moment, of the playback of    *)
(* one file with the seek keys.                                             *)
InitSig ==
    \E fs \in {<<FileA>>, <<FileB>>} :
        InitWith([indexed |-> TRUE, nowait |-> FALSE, seekable |-> TRUE,
                  log |-> FALSE, keys |-> KeysSeek, oversleep |-> {0}], fs)

NextSig == Next \/ Interrupt

SpecSig == InitSig /\ [][NextSig]_vars

(* The runs of the indexer alone, over every command line of non-empty      *)
(* files that hold up to MaxIdxRecs records in all, a record being at one   *)
(* of two times, in any order, with or without the CLRSCR marker.           *)
MaxIdxRecs == 4

IdxTimes == {TV(100, 0), TV(111, 500000)}
IdxRecords == {Rec(t.sec, t.usec, 4, c) : t \in IdxTimes, c \in BOOLEAN}

RECURSIVE InputsOf(_)
InputsOf(n) ==
    IF n = 0 THEN {<<>>}
    ELSE UNION { { <<f>> \o rest : f \in [1..k -> IdxRecords], rest \in InputsOf(n - k) }
                 : k \in 1..n }

IdxInputs == UNION {InputsOf(n) : n \in 1..MaxIdxRecs}

InitIdx ==
    \E fs \in IdxInputs :
        InitWith([indexed |-> TRUE, nowait |-> TRUE, seekable |-> TRUE,
                  log |-> FALSE, keys |-> KeysQuit, oversleep |-> {0}], fs)

NextIdx == Main

SpecIdx == InitIdx /\ [][NextIdx]_vars

(* The timeval arithmetic alone.  The operands are held where line 1683     *)
(* takes them from (status.time_elapsed and status.seek_request) and the    *)
(* result goes where it puts it (seek_target); every operand has its        *)
(* microseconds in [0, USEC).                                               *)
TvSecs == {0, 1, 100}
TvUsecs == {0, 1, 500000, 999999}
TvInputs == {TV(s, u) : s \in TvSecs, u \in TvUsecs}

InitTv ==
    \E tv1 \in TvInputs, tv2 \in TvInputs :
        /\ opts = [indexed |-> TRUE, nowait |-> TRUE, seekable |-> TRUE,
                   log |-> FALSE, keys |-> KeysQuit, oversleep |-> {0}]
        /\ files = <<>>
        /\ index = [fileid |-> <<>>, clrscrid |-> <<>>]
        /\ status = [InitStatus EXCEPT !.time_elapsed = tv1, !.seek_request = tv2]
        /\ loc = InitLoc
        /\ out = <<>>
        /\ written = <<>>
        /\ hist = InitHist
        /\ term = InitTerm
        /\ pc = "tv"

TvAdd ==
    /\ pc = "tv"
    /\ loc' = [loc EXCEPT !.seek_target =
                   timeval_add(status.time_elapsed, status.seek_request)]
    /\ pc' = "tv_add"
    /\ UNCHANGED <<term, files, opts, index, status, out, written, hist>>

TvSub ==
    /\ pc = "tv"
    /\ loc' = [loc EXCEPT !.seek_target =
                   timeval_sub(status.time_elapsed, status.seek_request)]
    /\ pc' = "tv_sub"
    /\ UNCHANGED <<term, files, opts, index, status, out, written, hist>>

TvDiff ==
    /\ pc = "tv"
    /\ loc' = [loc EXCEPT !.seek_target =
                   timeval_diff(status.time_elapsed, status.seek_request)]
    /\ pc' = "tv_diff"
    /\ UNCHANGED <<term, files, opts, index, status, out, written, hist>>

NextTv == TvAdd \/ TvSub \/ TvDiff

SpecTv == InitTv /\ [][NextTv]_vars

(* The runs in which the clock matters: plain playback of one file, with    *)
(* the speed keys, an unknown byte and an unknown escape sequence typed,    *)
(* and a select that returns on time or Oversleep microseconds late.        *)
Oversleep == 1000
KeysWait == {"p", "+", "1", "z", "ESC O Z", "q"}

InitWait ==
    \E fs \in {<<FileA>>, <<FileT>>} :
        InitWith([indexed |-> TRUE, nowait |-> FALSE, seekable |-> TRUE,
                  log |-> FALSE, keys |-> KeysWait, oversleep |-> {0, Oversleep}], fs)

NextWait ==
    \/ Main \/ InitCurses \/ InstallHandler
    \/ Read \/ Wait \/ Dispatch \/ Seek \/ Emit \/ Finish

SpecWait == InitWait /\ [][NextWait]_vars

-----------------------------------------------------------------------------
(* The recording as the specification describes it: the payloads in record  *)
(* order, and the time line on which the first record of the first file is  *)
(* at 0, every record lies its timestamp delta after the one before it in   *)
(* its file, and the first record of a file lies at the last record of the  *)
(* file before it.                                                          *)

RECURSIVE PayloadsOf(_, _, _)
PayloadsOf(fs, f, r) ==
    IF f > Len(fs) THEN <<>>
    ELSE IF r > Len(fs[f]) THEN PayloadsOf(fs, f + 1, 1)
    ELSE <<[f |-> f, r |-> r, stale |-> FALSE]>> \o PayloadsOf(fs, f, r + 1)

Payloads(fs) == PayloadsOf(fs, 1, 1)

IsPrefix(a, b) == Len(a) <= Len(b) /\ SubSeq(b, 1, Len(a)) = a

(* order and equality of two times given as timevals, whatever their usec *)
Norm(tv) == TV(tv.sec + (tv.usec \div USEC), tv.usec % USEC)
Leq(a, b) ==
    LET x == Norm(a)
        y == Norm(b)
    IN  x.sec < y.sec \/ (x.sec = y.sec /\ x.usec <= y.usec)
Same(a, b) == Norm(a) = Norm(b)
Sum(a, b) == Norm(TV(a.sec + b.sec, a.usec + b.usec))
AsTV(micros) == TV(micros \div USEC, micros % USEC)

(* the times of the recording, in microseconds *)
Duration(recs) ==
    IF recs = <<>> THEN 0 ELSE Micros(recs[Len(recs)].tv) - Micros(recs[1].tv)

RECURSIVE StartOfFile(_, _)
StartOfFile(fs, f) ==
    IF f <= 1 THEN 0 ELSE StartOfFile(fs, f - 1) + Duration(fs[f - 1])

TotalDuration(fs) == StartOfFile(fs, Len(fs) + 1)

RecordTime(fs, f, r) == StartOfFile(fs, f) + Micros(fs[f][r].tv) - Micros(fs[f][1].tv)

(* elapsed_at_entry of the clear-screen entry c of the index *)
ElapsedAtEntry(c) ==
    LET e == index.clrscrid[c]
    IN  AsTV(RecordTime(files, e.file_id, RecAt(files[e.file_id], e.record_start)))

(* the entry a coarse seek to the time T is to select *)
Latest(T) ==
    LET at == {c \in 1..Len(index.clrscrid) : Leq(ElapsedAtEntry(c), T)}
    IN  IF at = {} THEN 1
        ELSE CHOOSE c \in at : \A d \in at :
                 \/ ~Leq(ElapsedAtEntry(c), ElapsedAtEntry(d))
                 \/ (ElapsedAtEntry(d) = ElapsedAtEntry(c) /\ d <= c)

(* the timestamp deltas between consecutive records of the files *)
Deltas ==
    UNION { {Micros(files[f][r + 1].tv) - Micros(files[f][r].tv) :
                r \in 1..(Len(files[f]) - 1)} : f \in 1..Len(files) }

MaxDelta == IF Deltas = {} THEN 0 ELSE CHOOSE d \in Deltas : \A x \in Deltas : x <= d

(* the read at the top of the loop is about to report end of stream and     *)
(* there is no file to go on with                                           *)
AtFinalEOF ==
    /\ pc = "read"
    /\ RecAt(files[status.fp_file], status.fp_pos) = 0
    /\ \/ status.index_head = NULL
       \/ /\ ValidPtr(index.fileid, status.current_fileid)
          /\ index.fileid[status.current_fileid].next = NULL

(* seek_index has just returned *)
AfterCoarseSeek == pc = "fine" /\ loc.first_loop

-----------------------------------------------------------------------------
(* C1: played unindexed with the no-wait wait function and no key, ttyplay  *)
(* writes exactly the record payloads in record order: at every moment what *)
(* has been written is a prefix of the concatenation of the payloads (no    *)
(* byte added or repeated), and when the loop has ended all of it has been  *)
(* written (none lost).  Stated for the recordings that hold a record.      *)
C1_RoundTrip ==
    (opts.log /\ ~opts.indexed /\ opts.nowait /\ files[1] # <<>>) =>
        /\ IsPrefix(written, Payloads(files))
        /\ pc = "done" => written = Payloads(files)

(* C2: when the read at the top of the loop reports end of stream and there *)
(* is no next file, ttyplay returns, without a key being read.  Stated for  *)
(* the recordings that hold a record.                                       *)
C2_ExitAtEOF ==
    [][(AtFinalEOF /\ files[status.fp_file] # <<>>) => pc' = "done"]_vars

(* C3: once an indexed playback has run to the end of the last file with no *)
(* seek and no jump, time_elapsed is the sum over the files of (timestamp   *)
(* of the last record - timestamp of the first record).                     *)
C3_ElapsedIsSumOfDurations ==
    (opts.indexed /\ hist.eof /\ ~hist.nav) =>
        Same(status.time_elapsed, AsTV(TotalDuration(files)))

(* C4: after seek_index to a target T >= 0, status.clrscr is the entry with *)
(* the largest elapsed_at_entry among the entries with elapsed_at_entry <=  *)
(* T, or the first entry of the chain if T precedes them all.               *)
C4_CoarseSeekSelectsLatest ==
    (AfterCoarseSeek /\ Leq(Zero, loc.seek_target)) =>
        /\ ValidPtr(index.clrscrid, status.clrscr)
        /\ ElapsedAtEntry(status.clrscr) = ElapsedAtEntry(Latest(loc.seek_target))

(* C5: after seek_index has selected entry e, time_elapsed is e's           *)
(* elapsed_at_entry, current_fileid and the open stream are e's file,       *)
(* and the stream position and status.position are e's record_start.        *)
(* Stated for the targets T >= 0.                                           *)
C5_CoarseSeekState ==
    (AfterCoarseSeek /\ Leq(Zero, loc.seek_target)) =>
        /\ ValidPtr(index.clrscrid, status.clrscr)
        /\ LET e == index.clrscrid[status.clrscr]
           IN  /\ Same(status.time_elapsed, ElapsedAtEntry(status.clrscr))
               /\ status.current_fileid = e.file_id
               /\ status.fp_file = e.file_id
               /\ status.fp_pos = e.record_start
               /\ status.position = e.record_start

(* C6: when the loop iteration of a seek to a target T >= 0 ends,         *)
(* time_elapsed is at most T plus the delta of one record, and the last     *)
(* record the fine phase wrote is one that takes time_elapsed past T,       *)
(* unless the fine phase ran to the end of the last file.                   *)
C6_FinePhaseBound ==
    [][(pc = "emit" /\ hist.sought /\ pc' = "read" /\ Leq(Zero, loc.seek_target)) =>
          /\ Leq(status'.time_elapsed, Sum(loc.seek_target, AsTV(MaxDelta)))
          /\ \/ ~Leq(status'.time_elapsed, loc.seek_target)
             \/ index.fileid[status.current_fileid].next = NULL]_vars

(* C7: a seek to a target before the start or past the end of the           *)
(* recordings does not end the program; seek_index puts the stream at the   *)
(* first record of the first file for a target before the start, and        *)
(* selects the last entry of the chain for a target past the end.  Stated   *)
(* for the runs in which the prev field of the first entry, which the       *)
(* indexer never assigns, holds NULL.                                       *)
C7_SeekClamped ==
    [][(pc = "seek" /\ status.index_head # NULL /\ status.seek_request.sec # 0
          /\ index.clrscrid[1].prev = NULL) =>
          LET T == timeval_add(status.time_elapsed, status.seek_request)
          IN  /\ ~Leq(Zero, T) =>
                          /\ pc' = "fine"
                          /\ status'.fp_file = status.index_head
                          /\ status'.fp_pos = 0
              /\ ~Leq(T, AsTV(TotalDuration(files))) =>
                          /\ pc' = "fine"
                          /\ status'.clrscr = Len(index.clrscrid)]_vars

(* C8: key d while file F is played and no seek or jump before: if less     *)
(* than SWITCH_LATENCY seconds of F have been consumed the stream is put at *)
(* the start of the file before F, if more, at the start of F.  The key     *)
(* arrives while the player waits to write record r of F: what has been     *)
(* consumed of F lies between the time of the record written last (r - 1,   *)
(* or nothing when r is the first) and the time of r, both counted from the *)
(* first record of F.  Stated for F the third file or a later one, so that  *)
(* the file before F is not the first of the chain.                         *)
C8_PreviousFilePolicy ==
    [][(pc = "dispatch" /\ loc.key = "d" /\ ~hist.nav /\ status.current_fileid > 2
          /\ loc.buf.st = "live" /\ loc.buf.f = status.current_fileid) =>
          LET F == status.current_fileid
              r == loc.buf.r
              since(i) == Micros(files[F][i].tv) - Micros(files[F][1].tv)
              atLeast == IF r > 1 THEN since(r - 1) ELSE 0
              atMost == since(r)
              lands(f) == /\ pc' = "seek"
                          /\ status'.current_fileid = f
                          /\ status'.fp_file = f
                          /\ status'.fp_pos = 0
          IN  /\ atMost < SWITCH_LATENCY * USEC => lands(F - 1)
              /\ atLeast > SWITCH_LATENCY * USEC => lands(F)]_vars

(* C9: key d while the first file is current and key f while the last file  *)
(* is current leave current_fileid at that file and the program running.    *)
C9_JumpFileClamps ==
    [][(pc = "dispatch" /\ status.index_head # NULL
          /\ ValidPtr(index.fileid, status.current_fileid)) =>
          LET F == status.current_fileid
          IN  /\ (loc.key = "d" /\ F = status.index_head) =>
                    (pc' = "seek" /\ status'.current_fileid = F)
              /\ (loc.key = "f" /\ index.fileid[F].next = NULL) =>
                    (pc' = "seek" /\ status'.current_fileid = F)]_vars

(* C10: keys c / x make status.clrscr the next / previous entry of the      *)
(* global chain, the last / first staying where it is, and the first entry  *)
(* is reached when playback has not passed any clear-screen yet; the        *)
(* current file and the open stream are then the entry's file, and the      *)
(* stream is at the entry's record.                                         *)
C10_JumpClear ==
    [][(pc = "dispatch" /\ loc.key \in {"c", "x"} /\ status.index_head # NULL) =>
          LET n == Len(index.clrscrid)
              c == status.clrscr
              target == IF ~ValidPtr(index.clrscrid, c) THEN 1
                        ELSE IF loc.key = "c" THEN (IF c < n THEN c + 1 ELSE c)
                        ELSE (IF c > 1 THEN c - 1 ELSE c)
          IN  /\ pc' = "seek"
              /\ status'.clrscr = target
              /\ status'.current_fileid = index.clrscrid[target].file_id
              /\ status'.fp_file = index.clrscrid[target].file_id
              /\ status'.fp_pos = index.clrscrid[target].record_start]_vars

(* The command keys of the playback loop *)
CommandKeys == {"q", "f", "d", "c", "x"}

(* C11: a command key q, f, d, c or x read by ttywait during a timed wait   *)
(* is the key the loop dispatches on in that iteration, and the loop        *)
(* executes it: q ends the playback, the others run their jump (stated for  *)
(* indexed playback before the end of the input and before any other        *)
(* navigation).                                                             *)
C11_CommandKeysExecuted ==
    [][(pc = "dispatch" /\ hist.typed \in CommandKeys /\ loc.speed.sgn > 0
          /\ status.index_head # NULL /\ ~hist.eof /\ ~hist.nav) =>
          /\ loc.key = hist.typed
          /\ IF hist.typed = "q" THEN pc' = "done" ELSE hist'.nav]_vars

(* The two forms of the arrow keys *)
ArrowLetters == {"A", "B", "C", "D"}
CsiForm(x) == "ESC [ " \o x
Ss3Form(x) == "ESC O " \o x

(* C12: for x in A, B, C, D the sequence ESC [ x read by ttywait changes    *)
(* seek_request exactly as ESC O x read in the same state would (stated for *)
(* indexed playback at positive speed).                                     *)
C12_BothArrowForms ==
    [][(pc = "wait" /\ ~opts.nowait /\ pc' = "dispatch" /\ loc.speed.sgn > 0
          /\ status.index_head # NULL) =>
          \A x \in ArrowLetters :
              hist'.typed = CsiForm(x) =>
                  status'.seek_request =
                      ttywait(status, index, loc.speed, Ss3Form(x),
                              TV(NowSec, 0)).status.seek_request]_vars

(* The seconds a seek key stands for at speed 1.0 *)
SeekStep(k) ==
    CASE k = "ESC O D" -> -JUMPBASE
      [] k = "ESC O C" -> JUMPBASE
      [] k = "ESC O A" -> -JUMPBASE * JUMP_SCALE
      [] k = "ESC O B" -> JUMPBASE * JUMP_SCALE
      [] k = "ESC [ 5" -> -JUMPBASE * JUMP_SCALE * JUMP_SCALE
      [] k = "ESC [ 6" -> JUMPBASE * JUMP_SCALE * JUMP_SCALE
      [] OTHER -> 0
StepKeys == {"ESC O D", "ESC O C", "ESC O A", "ESC O B", "ESC [ 5", "ESC [ 6"}

(* C13: at a positive speed s = 2^e a seek key adds its step times s to     *)
(* seek_request: -15s / +15s (left / right), -150s / +150s (up / down),     *)
(* -1500s / +1500s (page up / page down).  For e < 0 the equation is        *)
(* multiplied through by 2^-e.                                              *)
C13_SeekStepScaled ==
    [][(pc = "wait" /\ ~opts.nowait /\ pc' = "dispatch" /\ loc.speed.sgn > 0
          /\ hist'.typed \in StepKeys) =>
          LET e == loc.speed.exp
              m == SeekStep(hist'.typed)
              added == status'.seek_request.sec - status.seek_request.sec
          IN  /\ status'.seek_request.usec = status.seek_request.usec
              /\ IF e >= 0 THEN added = m * Pow2(e)
                 ELSE added * Pow2(-e) = m]_vars

(* C14: in indexed playback a non-zero seek_request after the wait makes    *)
(* the same iteration run the coarse seek to time_elapsed + seek_request    *)
(* and then the fine phase, after which seek_request is zero again; it is   *)
(* zero at the start of every wait.                                         *)
C14_SeekServedInSameIteration ==
    [][status.index_head # NULL =>
          /\ (pc = "seek" /\ status.seek_request # Zero) =>
                (/\ pc' = "fine"
                 /\ loc'.seek_target = timeval_add(status.time_elapsed,
                                                   status.seek_request))
          /\ (pc = "fine" /\ pc' # "fine") =>
                (pc' = "emit" /\ status'.seek_request = Zero)
          /\ pc' = "wait" => status'.seek_request = Zero]_vars

C16_SigintRestoresTerminal ==
    pc \in {"exit_sigint", "killed"} => term.mode = "saved"

(* C17: however the process ends by its own doing after the terminal was    *)
(* switched (the return of main after q or the end of playback, or an       *)
(* exit() taken in the playback loop, a seek, a jump or the release of the  *)
(* index), the terminal is back in its saved state (stated for indexed      *)
(* playback).                                                               *)
C17_EveryExitRestoresTerminal ==
    (opts.indexed /\ pc \in {"returned", "exit_failure", "exit_0"}) =>
        term.mode = "saved"

(* Bytes that are no command: a letter without a case label, and ESC        *)
(* followed by bytes that no case label of the inner switches names         *)
UnknownKeys == {"z", "ESC O Z", "ESC [ Z", "ESC Z"}

(* C18: an unknown key or escape sequence read by ttywait is dropped: the   *)
(* wait leaves the speed and the whole status (seek_request, time_elapsed,  *)
(* current_fileid, clrscr, the stream and its position) as they were and    *)
(* passes no key up, and the switch of the loop then changes nothing.       *)
C18_UnknownKeyDropped ==
    [][/\ (pc = "wait" /\ pc' = "dispatch" /\ hist'.typed \in UnknownKeys) =>
             /\ loc'.speed = loc.speed
             /\ status' = status
             /\ loc' = [loc EXCEPT !.key = ""]
       /\ (pc = "dispatch" /\ hist.typed \in UnknownKeys) =>
             /\ pc' = "seek"
             /\ status' = status /\ loc' = loc]_vars

(* C18, witness: indexed playback at speed 2 has read an unknown escape     *)
(* sequence in the wait before the third record                             *)
C18_UnknownKeyRead ==
    /\ pc = "dispatch" /\ hist.typed = "ESC O Z" /\ opts.indexed
    /\ loc.speed = Speed(1, 1) /\ loc.buf.r = 3 /\ ~hist.eof

(* The navigation commands: the jumps, the seek keys, Home and End *)
NavigationKeys == {"f", "d", "c", "x", "ESC O H"} \cup SeekKeys

(* C19: when the recording comes from standard input (no index) a           *)
(* navigation command read by ttywait is without effect: the wait and the   *)
(* switch of the loop go on to the next step of the iteration, the process  *)
(* does not end, and the stream position and the record in hand stay as     *)
(* they were.  Stated for the recordings that hold a record, before the end *)
(* of the input.                                                            *)
C19_StdinNavigationNoOp ==
    [][(~opts.indexed /\ files[1] # <<>> /\ ~hist.eof
          /\ pc \in {"wait", "dispatch"} /\ hist'.typed \in NavigationKeys) =>
          /\ pc' = (IF pc = "wait" THEN "dispatch" ELSE "seek")
          /\ status'.fp_pos = status.fp_pos
          /\ loc'.buf = loc.buf]_vars

(* C20: no payload of a record whose header declares more than BUFSIZE      *)
(* (8192) bytes reaches the terminal, with or without an index: the process *)
(* has ended before; a record of exactly BUFSIZE bytes is played.           *)
C20_OversizeRecordFatal ==
    \A i \in 1..Len(out) :
        (out[i].f # 0 /\ ~out[i].stale) => files[out[i].f][out[i].r].len <= BUFSIZE

(* C21: a record of which the file holds fewer payload bytes than its       *)
(* header declares is never played: no chunk that reaches the terminal is   *)
(* the payload of such a record, and no index built from a file holding one *)
(* is played from.                                                          *)
C21_ShortPayloadFatal ==
    /\ \A i \in 1..Len(out) :
          (out[i].f # 0 /\ ~out[i].stale) =>
              files[out[i].f][out[i].r].got = files[out[i].f][out[i].r].len
    /\ (opts.indexed /\ pc = "emit") =>
          \A f \in 1..Len(files) : \A r \in 1..Len(files[f]) :
              files[f][r].got = files[f][r].len

(* the recordings whose timestamps do not decrease within a file *)
WellFormed(fs) ==
    \A f \in 1..Len(fs) : \A r \in 1..(Len(fs[f]) - 1) :
        Leq(fs[f][r].tv, fs[f][r + 1].tv)

(* C22: when the index of well-formed files has been built, along the       *)
(* chain of clear-screen entries time_elapsed_cls does not decrease, and    *)
(* from an entry to the next entry of the same file record_start increases. *)
C22_IndexMonotone ==
    (status.index_head # NULL /\ WellFormed(files)) =>
        \A c \in 1..Len(index.clrscrid) :
            LET e == index.clrscrid[c]
            IN  ValidPtr(index.clrscrid, e.next) =>
                  LET n == index.clrscrid[e.next]
                  IN  /\ Leq(e.time_elapsed_cls, n.time_elapsed_cls)
                      /\ n.file_id = e.file_id => e.record_start < n.record_start

(* C22, witness: an index of two files with three entries has been built,   *)
(* of which two lie in one file                                             *)
C22_ThreeEntriesIndexed ==
    /\ status.index_head # NULL /\ Len(files) = 2 /\ Len(index.clrscrid) = 3
    /\ index.clrscrid[1].next = 2 /\ index.clrscrid[2].next = 3
    /\ index.clrscrid[1].file_id = index.clrscrid[2].file_id
    /\ index.clrscrid[3].file_id = 2

(* the entries of the index that stand for record r of file f *)
EntriesOf(f, r) ==
    {c \in 1..Len(index.clrscrid) :
        /\ index.clrscrid[c].file_id = f
        /\ index.clrscrid[c].record_start = Offset(files[f], r)}

(* C23: when the index has been built, every record whose payload holds the *)
(* CLRSCR marker (whatever bytes precede it) has exactly one entry, whose   *)
(* record_start is the offset of the record's header, and the records       *)
(* without the marker have none.                                            *)
C23_OneEntryPerMarker ==
    status.index_head # NULL =>
        /\ \A f \in 1..Len(files) : \A r \in 1..Len(files[f]) :
              Cardinality(EntriesOf(f, r)) = (IF files[f][r].clr THEN 1 ELSE 0)
        /\ \A c \in 1..Len(index.clrscrid) :
              \E f \in 1..Len(files) : \E r \in 1..Len(files[f]) : c \in EntriesOf(f, r)

(* C24: when the index has been built, the time_elapsed_cls of every entry  *)
(* is the cumulative time at the entry's own record: the sum of the         *)
(* timestamp deltas from the first record of the first file up to that      *)
(* record, the first record of each file adding zero.                       *)
C24_EntryTimeIsCumulative ==
    status.index_head # NULL =>
        \A c \in 1..Len(index.clrscrid) :
            Same(index.clrscrid[c].time_elapsed_cls, ElapsedAtEntry(c))

(* the files of the command line that hold no CLRSCR marker *)
Unmarked == {f \in 1..Len(files) : \A r \in 1..Len(files[f]) : ~files[f][r].clr}

(* C25: the indexer gets through files without a CLRSCR marker: once main   *)
(* has called create_file_index the index stands, and the first_clrscr and  *)
(* last_clrscr of a file without marker are NULL.                           *)
C25_UnmarkedFileIndexed ==
    (opts.indexed /\ pc # "main") =>
        /\ status.index_head # NULL
        /\ \A f \in Unmarked :
              /\ index.fileid[f].first_clrscr = NULL
              /\ index.fileid[f].last_clrscr = NULL

(* C26: in indexed playback with the timed wait and no key typed, what has  *)
(* been written is at every moment the payloads of the files in record      *)
(* order and command-line order, each once; the process does not end on     *)
(* the way, it has written them all when the end of the last file is met,   *)
(* and after the end of a file the stream is bound to the next file, which  *)
(* is then the current file.                                                *)
C26_IndexedPlaybackInOrder ==
    [][(status.index_head # NULL /\ opts.log /\ ~opts.nowait
          /\ opts.keys = KeysQuit /\ hist.typed # "q" /\ hist'.typed # "q") =>
          /\ IsPrefix(written', Payloads(files))
          /\ pc' \notin {"abort", "segv", "exit_failure", "exit_0"}
          /\ hist'.eof => written' = Payloads(files)
          /\ (pc = "read" /\ RecAt(files[status.fp_file], status.fp_pos) = 0
                /\ status.fp_file < Len(files)) =>
                (/\ status'.fp_file = status.fp_file + 1
                 /\ status'.fp_pos = 0
                 /\ status'.current_fileid = status.fp_file + 1)]_vars

(* C27: the Home key read by ttywait in indexed playback puts the player at *)
(* the absolute start, whichever file was being played: time_elapsed is     *)
(* zero, the current file is the first file, and the stream is bound to the *)
(* first file, at its first record.                                         *)
C27_HomeIsAbsoluteStart ==
    [][(pc = "wait" /\ status.index_head # NULL /\ hist'.typed = "ESC O H"
          /\ ~hist.nav /\ ~hist.eof) =>
          /\ pc' = "dispatch"
          /\ status'.time_elapsed = Zero
          /\ status'.current_fileid = status.index_head
          /\ status'.fp_file = status.index_head
          /\ status'.fp_pos = 0]_vars


(* C28: when the fine phase of a seek stops after having consumed at least  *)
(* one record, the stream position it restores is the offset at which the   *)
(* last consumed record (the last one whose time was added to time_elapsed) *)
(* starts.                                                                  *)
C28_FineRestoresRecordStart ==
    [][(pc = "fine" /\ pc' = "emit" /\ ~loc.first_loop) =>
          \E j \in 1..Len(files[status.fp_file]) :
              /\ Offset(files[status.fp_file], j + 1) = loc.cur_pos
              /\ status'.fp_pos = Offset(files[status.fp_file], j)]_vars


(* the entries of the index that belong to file f, in the order of creation *)
(* (file order, then offset order)                                          *)
OwnEntries(f) == {c \in 1..Len(index.clrscrid) : index.clrscrid[c].file_id = f}

(* C29: when the index has been built, the clear-screen entries form one    *)
(* doubly-linked chain in file order then offset order: each entry's next   *)
(* is the entry created after it and that entry's prev is the entry itself, *)
(* across file boundaries too; the first entry's prev and the last entry's  *)
(* next are NULL; and first_clrscr / last_clrscr of each file that has      *)
(* entries are its own first / last entry.                                  *)
C29_OneDoublyLinkedChain ==
    (status.index_head # NULL /\ Len(index.clrscrid) > 0) =>
        LET E == index.clrscrid
            n == Len(E)
        IN  /\ \A c \in 1..(n - 1) : E[c].next = c + 1 /\ E[c + 1].prev = c
            /\ E[1].prev = NULL
            /\ E[n].next = NULL
            /\ \A f \in 1..Len(index.fileid) :
                  OwnEntries(f) # {} =>
                     /\ \A c \in OwnEntries(f) :
                           /\ index.fileid[f].first_clrscr <= c
                           /\ c <= index.fileid[f].last_clrscr
                     /\ index.fileid[f].first_clrscr \in OwnEntries(f)
                     /\ index.fileid[f].last_clrscr \in OwnEntries(f)


(* C30: once create_file_index has returned, no step of the playback loop   *)
(* (read, rollover, wait and key command, jump, seek, fine replay, emit)    *)
(* changes any field of any File_ID or Clrscr_ID of the index.              *)
C30_IndexReadOnly ==
    [][pc \notin {"main", "done"} => index' = index]_vars

(* C30, witness: a jump or a seek has been served on an index of at least   *)
(* two entries and playback goes on behind it                               *)
C30_NavigatedOnIndex ==
    /\ pc = "emit" /\ hist.nav /\ status.index_head # NULL
    /\ Len(index.clrscrid) >= 2 /\ Len(out) >= 2


(* C31: for operands whose microseconds are in [0, USEC), the result of     *)
(* timeval_add, timeval_sub and timeval_diff has its microseconds in        *)
(* [0, USEC), also when the microseconds of the addends sum to USEC.        *)
C31_UsecNormalised ==
    pc \in {"tv_add", "tv_sub", "tv_diff"} =>
        (0 <= loc.seek_target.usec /\ loc.seek_target.usec < USEC)


(* the time between the two records of a wait, divided by the absolute      *)
(* value of the speed, in microseconds                                      *)
ScaledDelta ==
    LET delta == Micros(loc.h.tv) - Micros(loc.prev)
    IN  IF loc.speed.exp >= 0 THEN TruncDiv(delta, Pow2(loc.speed.exp))
        ELSE delta * Pow2(-loc.speed.exp)

(* C32, as stated: in a wait that no input interrupts, the timeout handed   *)
(* to select is the scaled time between the records less the drift of the   *)
(* previous wait, or zero when that is negative, and the drift the wait     *)
(* leaves is that timeout (requested) less the time measured across the     *)
(* call (actual).                                                           *)
C32_DriftIsRequestedLessActual ==
    [][(pc = "wait" /\ ~opts.nowait /\ hist'.typed = "none") =>
          LET want == ScaledDelta - Micros(loc.drift)
          IN  /\ Micros(hist'.timeout) = (IF want < 0 THEN 0 ELSE want)
              /\ Micros(loc'.drift) = Micros(hist'.timeout) - Micros(hist'.elapsed)]_vars


(* C32, amended: in a wait that no input interrupts, the timeout handed to  *)
(* select is the scaled time between the records less the drift of the      *)
(* previous wait, or zero when that is negative; the drift the wait leaves  *)
(* is actual less that timeout when the timeout is positive, and the        *)
(* previous drift plus actual when the timeout is zero.                     *)
C32_DriftIsActualLessRequested ==
    [][(pc = "wait" /\ ~opts.nowait /\ hist'.typed = "none") =>
          LET want == ScaledDelta - Micros(loc.drift)
          IN  /\ Micros(hist'.timeout) = (IF want < 0 THEN 0 ELSE want)
              /\ Micros(hist'.timeout) > 0 =>
                    Micros(loc'.drift) = Micros(hist'.elapsed) - Micros(hist'.timeout)
              /\ Micros(hist'.timeout) = 0 =>
                    Micros(loc'.drift) = Micros(loc.drift) + Micros(hist'.elapsed)]_vars

(* C32, witness: a wait with a timeout of zero has timed out and has left   *)
(* the drift of two late returns                                            *)
C32_DriftAccumulated ==
    /\ pc = "dispatch" /\ hist.typed = "none" /\ hist.timeout = Zero
    /\ loc.drift = TV(0, 2 * Oversleep)


(* C33: whenever ttywait returns after having read input, whatever the key, *)
(* drift is zero.                                                           *)
C33_DriftZeroAfterInput ==
    [][(pc = "wait" /\ ~opts.nowait /\ hist'.typed # "none") => loc'.drift = Zero]_vars


(* C34: consuming a record that has an index entry makes that entry         *)
(* status.clrscr: when the loop has written the payload of such a record    *)
(* and goes on to the next read, status.clrscr is the record's entry.       *)
C34_ClrscrFollowsPlayback ==
    [][(pc = "emit" /\ pc' = "read" /\ status.index_head # NULL /\ loc.buf.st = "live"
          /\ EntriesOf(loc.buf.f, loc.buf.r) # {}) =>
          status'.clrscr \in EntriesOf(loc.buf.f, loc.buf.r)]_vars


(* C35: whenever the playback loop reads a record in indexed playback, the  *)
(* file the stream is bound to is status.current_fileid.                    *)
C35_StreamIsCurrentFile ==
    (pc = "read" /\ status.index_head # NULL) => status.fp_file = status.current_fileid


(* C36: when a jump command (f, d, c or x) has repositioned the stream, the *)
(* payload the loop writes next is that of the record at the new stream     *)
(* position, not that of the record read before the jump.                   *)
C36_JumpEmitsNewRecord ==
    [][(pc = "emit" /\ loc.key \in {"f", "d", "c", "x"} /\ status.index_head # NULL
          /\ Len(out') > Len(out)) =>
          LET chunk == out'[Len(out')]
          IN  /\ chunk.f = status.fp_file
              /\ chunk.r = RecAt(files[status.fp_file], status.fp_pos)]_vars


(* the number of times record r of file f occurs in a sequence of chunks *)
RECURSIVE TimesWritten(_, _, _)
TimesWritten(chunks, f, r) ==
    IF chunks = <<>> THEN 0
    ELSE (IF chunks[1].f = f /\ chunks[1].r = r THEN 1 ELSE 0)
         + TimesWritten(Tail(chunks), f, r)

(* C37: when the loop iteration that has served a seek ends, it has written *)
(* no record more than once (the record on which the fine phase stopped is  *)
(* not written again at the end of the iteration), and the record the next  *)
(* iteration is about to read is none of those it has written.              *)
C37_SeekWritesEachRecordOnce ==
    [][(pc = "emit" /\ pc' = "read" /\ hist.sought /\ status.index_head # NULL) =>
          \A i \in 1..Len(out') :
              /\ TimesWritten(out', out'[i].f, out'[i].r) = 1
              /\ ~(/\ out'[i].f = status'.fp_file
                    /\ out'[i].r = RecAt(files[status'.fp_file], status'.fp_pos))]_vars


(* C38: while playback is paused (speed < 0), a key that leaves the speed   *)
(* negative releases no record: the loop iteration in which it was read     *)
(* writes no payload and does not advance time_elapsed.                     *)
C38_PausedEmitsNothing ==
    [][(pc = "emit" /\ ~opts.nowait /\ ~hist.eof /\ loc.speed.sgn < 0
          /\ hist.typed \notin {"", "none", "p"}) =>
          /\ out' = out
          /\ status'.time_elapsed = status.time_elapsed]_vars


BackwardKeys == {"ESC O D", "ESC O A", "ESC [ 5"}
ForwardKeys == {"ESC O C", "ESC O B", "ESC [ 6"}

(* C39: the direction of a seek key does not depend on the pause state:     *)
(* also while paused (speed < 0) left arrow, up arrow and PgUp make         *)
(* status.seek_request.tv_sec smaller and right arrow, down arrow and       *)
(* PgDown make it greater.                                                  *)
C39_SeekDirectionWhenPaused ==
    [][(pc = "wait" /\ pc' = "dispatch" /\ loc.speed.sgn < 0 /\ ~hist.eof) =>
          /\ hist'.typed \in BackwardKeys =>
                status'.seek_request.sec < status.seek_request.sec
          /\ hist'.typed \in ForwardKeys =>
                status'.seek_request.sec > status.seek_request.sec]_vars


(* C40: no heap block is used after its release or released twice: the end  *)
(* of the loop body writes and releases a payload buffer that has not been  *)
(* released before, the handling of end of stream and rollover releases no  *)
(* block a second time, and on exit free_fileid releases every entry of the *)
(* index once, so that the process returns from main.                       *)
C40_BlocksReleasedOnce ==
    [][/\ pc = "emit" => loc.buf.st # "freed"
       /\ (pc = "read" /\ status'.fp_file # status.fp_file) => loc.buf.st # "freed"
       /\ pc = "done" => pc' = "returned"]_vars

=============================================================================
